---- MODULE Spec2Model ----
(***************************************************************************)
(* Circular Binary Segmentation (src/cbs.go): CBS, rsegment, cbsInner and  *)
(* cbsStat as a state machine.                                             *)
(*                                                                         *)
(* Go slices are 0-based; a slice is a TLA+ sequence and At(s, i) reads    *)
(* its element of Go index i.  Every index kept in the state (start, end,  *)
(* maxStart, maxEnd, segment bounds) is the Go index.                      *)
(*                                                                         *)
(* Arithmetic is exact: the inputs are small integers, the mean-centred    *)
(* cumulative sum y is kept multiplied by len(x) (an integer), and the     *)
(* statistic is the fraction num/den.  Floating-point rounding is not      *)
(* modelled.                                                               *)
(*                                                                         *)
(* The recursion of rsegment is an explicit stack of frames, one action    *)
(* per statement of rsegment.  A call of cbsInner is one step (Detect).    *)
(* rng.Shuffle can leave the working copy in any order; the loop of        *)
(* cbsInner reads the order only through the test threshold >= maxT, so a  *)
(* call of cbsInner is driven by one truth value per shuffle (a "hit"),    *)
(* drawn from the values that some order of the slice gives.               *)
(*                                                                         *)
(* cbsStat always returns a nil error, so the error returns of cbsInner,   *)
(* rsegment and CBS are never taken and have no action.                    *)
(***************************************************************************)
EXTENDS Integers, Sequences, FiniteSets, TLC

VARIABLES
    x,          \* the caller's slice x (CBS parameter)
    shuffles,   \* CBS parameter
    p,          \* significanceLevel, the fraction <<numerator, denominator>>
    seed,       \* CBS parameter
    clock,      \* the value time.Now().UnixNano() returns next
    rng,        \* the *rand.Rand of the call: its source and draws made
    segments,   \* the local `segments` of CBS, appended to through l
    stack,      \* call frames of rsegment, innermost last
    pc,         \* position of CBS: "start", "running", "done"
    result,     \* what CBS returned: segments and err
    call,       \* which call of CBS this is (1 or 2)
    prev,       \* what the previous call of CBS returned
    stream,     \* outcomes the first call drew from its random source
    calls       \* log of the (start, end) of every rsegment invocation

vars == <<x, shuffles, p, seed, clock, rng, segments, stack, pc, result,
          call, prev, stream, calls>>

----------------------------------------------------------------------------
(* Bounds of the model *)

\* Longest input with arbitrary values.
FullLen == 5
\* Longest input; inputs longer than FullLen hold at most two nonzero values.
MaxLen == 16
\* Largest shuffles argument.
MaxShuffles == 2

(* Program constant: the minimum segment width of the heuristics. *)
MinSeg == 5

Values == {0, 1, 2}
\* significanceLevel values: 1/20, 1/2 and 1
Levels == {<<1, 20>>, <<1, 2>>, <<1, 1>>}
Seeds == {0, 42}

----------------------------------------------------------------------------
(* Slices *)

At(s, i) == s[i + 1]

\* x[lo:hi]
Slice(s, lo, hi) == SubSeq(s, lo + 1, hi)

\* the slice s with s[lo:lo+len(t)] overwritten by t
Overwrite(s, lo, t) ==
    [k \in 1..Len(s) |->
        IF k > lo /\ k <= lo + Len(t) THEN t[k - lo] ELSE s[k]]

RECURSIVE SumSeq(_)
SumSeq(s) == IF s = <<>> THEN 0 ELSE s[1] + SumSeq(Tail(s))

\* floats.CumSum of the centred slice, times len(s):
\* len(s) * y[k] = len(s) * (s[0] + ... + s[k]) - (k + 1) * sum(s)
RECURSIVE CumSumFrom(_, _, _, _, _)
CumSumFrom(s, total, k, run, acc) ==
    IF k > Len(s)
    THEN acc
    ELSE CumSumFrom(s, total, k + 1, run + s[k],
                    Append(acc, Len(s) * (run + s[k]) - k * total))

CumSum(s) == CumSumFrom(s, SumSeq(s), 1, 0, <<>>)

\* the scan of floats.MaxIdx: a later element wins only if strictly greater
RECURSIVE MaxScan(_, _, _)
MaxScan(y, k, best) ==
    IF k > Len(y) THEN best
    ELSE MaxScan(y, k + 1, IF y[k] > y[best] THEN k ELSE best)

\* a scan of the minimum in which a later element wins on ties as well
RECURSIVE MinScanLast(_, _, _)
MinScanLast(y, k, best) ==
    IF k > Len(y) THEN best
    ELSE MinScanLast(y, k + 1, IF y[k] <= y[best] THEN k ELSE best)

\* the scan of floats.MinIdx: a later element wins only if strictly smaller
RECURSIVE MinScan(_, _, _)
MinScan(y, k, best) ==
    IF k > Len(y) THEN best
    ELSE MinScan(y, k + 1, IF y[k] < y[best] THEN k ELSE best)

\* floats.MaxIdx: the Go index of the maximum, the lowest one on ties
MaxIdx(y) == MaxScan(y, 2, 1) - 1

\* floats.MinIdx giving the highest index on ties instead of the lowest
MinIdxLast(y) == MinScanLast(y, 2, 1) - 1

\* floats.MinIdx: the Go index of the minimum, the lowest one on ties
MinIdx(y) == MinScan(y, 2, 1) - 1

----------------------------------------------------------------------------
(* cbsStat *)

\* The statistic num/den as a fraction with den > 0.
StatZero == <<0, 1>>

\* a >= b for fractions
StatGeq(a, b) == a[1] * b[2] >= b[1] * a[2]

cbsStat(s) ==
    IF Len(s) = 0
    THEN [stat |-> StatZero, start |-> 0, end |-> 0]
    ELSE
        LET length == Len(s)
            y  == CumSum(s)
            e0 == MaxIdx(y)
            e1 == MinIdx(y)
            i0 == IF e1 < e0 THEN e1 ELSE e0
            i1 == IF e1 < e0 THEN e0 ELSE e1
            s0 == At(y, i0)
            s1 == At(y, i1)
            denominator == ((i1 - i0) + 1) * (length - (i1 - i0))
        IN  IF denominator = 0
            THEN [stat |-> StatZero, start |-> i0, end |-> i1 + 1]
            \* (s1-s0)^2 * length / denominator, with s = y / length
            ELSE [stat  |-> <<(s1 - s0) * (s1 - s0), length * denominator>>,
                  start |-> i0,
                  end   |-> i1 + 1]

----------------------------------------------------------------------------
(* Inputs *)

\* every slice over Values of length at most FullLen
FullInputs == UNION {[1..n -> Values] : n \in 0..FullLen}

\* longer slices: zero except at Go indices i and j (one spike when i = j)
SpikeInputs ==
    {[k \in 1..n |-> IF k = i \/ k = j THEN 1 ELSE 0] :
        n \in (FullLen + 1)..MaxLen, i \in 1..MaxLen, j \in 1..MaxLen}

\* constant slices of every length
ConstInputs == {[k \in 1..n |-> v] : n \in 0..MaxLen, v \in Values}

Inputs == FullInputs \cup SpikeInputs \cup ConstInputs

\* every order the elements of s can be left in
RECURSIVE Arrangements(_)
Arrangements(s) ==
    IF s = <<>>
    THEN {<<>>}
    ELSE LET rest == Arrangements(Tail(s))
         IN  {SubSeq(t, 1, k) \o <<s[1]>> \o SubSeq(t, k + 1, Len(t)) :
                 t \in rest, k \in 0..(Len(s) - 1)}

----------------------------------------------------------------------------
(* cbsInner *)

\* maxStart left as it is
SnapStartOff(maxStart) == maxStart

\* if maxStart < 5 { maxStart = 0 }
SnapStart(maxStart) == IF maxStart < MinSeg THEN 0 ELSE maxStart

\* maxEnd left as it is
SnapEndOff(length, maxEnd) == maxEnd

\* if len(x)-maxEnd < 5 { maxEnd = len(x) }
SnapEnd(length, maxEnd) == IF length - maxEnd < MinSeg THEN length ELSE maxEnd

\* float64(threshCount) > alpha, alpha = float64(shuffles) * p
ExceedsAlpha(threshCount) == threshCount * p[2] > shuffles * p[1]

\* threshold >= maxT for the working copy left as arr
Hit(arr, maxT) == StatGeq(cbsStat(arr).stat, maxT)

\* The permutation loop from iteration i on.  hits[k] says whether the k-th
\* shuffle left a copy whose statistic is >= maxT.  Gives the verdict and
\* the number of shuffles made.
RECURSIVE Loop(_, _, _)
Loop(hits, i, threshCount) ==
    IF ~(i < shuffles)
    THEN [isChange |-> TRUE, draws |-> i]
    ELSE LET count == IF hits[i + 1] THEN threshCount + 1 ELSE threshCount
         IN  IF ExceedsAlpha(count)
             THEN [isChange |-> FALSE, draws |-> i + 1]
             ELSE Loop(hits, i + 1, count)

\* the working copy being the caller's slice itself (xt := x)
XtAliased == "x"

\* where the working copy of cbsInner lives: "xt" is the buffer of make
XtBuffer == "xt"

\* cbsInner(xs, shuffles, p, rng) with its shuffles coming out as hits;
\* last is the order the final shuffle left the working copy in.
cbsInner(xs, hits) ==
    LET st == cbsStat(xs)
    IN  IF st.end - st.start = Len(xs)
        THEN [isChange |-> FALSE, maxStart |-> st.start, maxEnd |-> st.end,
              draws |-> 0]
        ELSE LET run == Loop(hits, 0, 0)
             IN  [isChange |-> run.isChange,
                  maxStart |-> SnapStart(st.start),
                  maxEnd   |-> SnapEnd(Len(xs), st.end),
                  draws    |-> run.draws]

\* whether cbsInner(xs, ...) reaches its permutation loop
ReachesLoop(xs) ==
    LET st == cbsStat(xs) IN st.end - st.start # Len(xs)

\* The outcomes the shuffles of one cbsInner(xs, ...) can have: a sequence
\* of hits, one per iteration of the loop.
HitRuns(xs) ==
    IF ReachesLoop(xs) /\ shuffles > 0
    THEN LET maxT == cbsStat(xs).stat
             outcomes == {Hit(arr, maxT) : arr \in Arrangements(xs)}
         IN  [1..shuffles -> outcomes]
    ELSE {<<>>}

\* The orders the working copy can be in when cbsInner returns.
LastOrders(xs, hits, draws) ==
    IF draws = 0
    THEN {xs}
    ELSE LET maxT == cbsStat(xs).stat
         IN  {arr \in Arrangements(xs) : Hit(arr, maxT) = hits[draws]}

\* The caller's slice after cbsInner on x[start:end]: untouched, the working
\* copy being a buffer of its own.
InputAfter(start, xs, hits, draws) ==
    IF XtBuffer = "xt"
    THEN {x}
    ELSE {Overwrite(x, start, arr) : arr \in LastOrders(xs, hits, draws)}

----------------------------------------------------------------------------
(* CBS and rsegment *)

NoResult == [returned |-> FALSE]
NoRng == [src |-> <<"none", 0>>, pos |-> 0]

Frame(start, end) ==
    [start |-> start, end |-> end, pc |-> "enter",
     isChange |-> FALSE, s |-> 0, e |-> 0]

Top == stack[Len(stack)]
Pop == SubSeq(stack, 1, Len(stack) - 1)
SetTop(f) == [stack EXCEPT ![Len(stack)] = f]

\* rand.New(rand.NewSource(...)) of CBS
NewRng ==
    IF seed = 0
    THEN [src |-> <<"seed", seed>>, pos |-> 0]
    ELSE [src |-> <<"clock", clock>>, pos |-> 0]

\* the test without its (e-s < 5)
IsLeafAnyWidth(f) ==
    \/ ~f.isChange
    \/ f.e - f.s = f.end - f.start

\* !isChange || (e-s < 5) || (e-s == end-start)
IsLeaf(f) ==
    \/ ~f.isChange
    \/ f.e - f.s < MinSeg
    \/ f.e - f.s = f.end - f.start

\* the recursive call made on the whole range again
BeforeRangeWhole(f) == <<f.start, f.end>>

\* rsegment(x, start, start+s, ...)
BeforeRange(f) == <<f.start, f.start + f.s>>

\* the split appended in the coordinates of x[start:end]
SplitSegmentLocal(f) == <<f.s, f.e>>

\* [2]int{start + s, start + e}
SplitSegment(f) == <<f.start + f.s, f.start + f.e>>

\* the recursive call starting one past the end of the split
AfterRangeGap(f) == <<f.start + f.e + 1, f.end>>

\* rsegment(x, start+e, end, ...)
AfterRange(f) == <<f.start + f.e, f.end>>

Init ==
    /\ x \in Inputs
    /\ shuffles \in -1..MaxShuffles
    /\ p \in Levels
    /\ seed \in Seeds
    /\ clock = 1
    /\ rng = NoRng
    /\ segments = <<>>
    /\ stack = <<>>
    /\ pc = "start"
    /\ result = NoResult
    /\ call = 1
    /\ prev = NoResult
    /\ stream = <<>>
    /\ calls = <<>>

\* CBS up to its call of rsegment(x, 0, len(x), ...)
CBSEnter ==
    /\ pc = "start"
    /\ pc' = "running"
    /\ rng' = NewRng
    /\ segments' = <<>>
    /\ stack' = <<Frame(0, Len(x))>>
    /\ calls' = <<<<0, Len(x)>>>>
    /\ UNCHANGED <<x, shuffles, p, seed, clock, result, call, prev, stream>>

\* if start >= end { return nil }
rsegmentEmpty ==
    /\ pc = "running" /\ stack # <<>>
    /\ Top.pc = "enter"
    /\ Top.start >= Top.end
    /\ stack' = Pop
    /\ UNCHANGED <<x, shuffles, p, seed, clock, rng, segments, pc, result,
                   call, prev, stream, calls>>

\* isChange, _, s, e, err := cbsInner(x[start:end], shuffles, p, rng)
\* with the shuffles coming out as hits
Detect(hits) ==
    LET xs == Slice(x, Top.start, Top.end)
        r  == cbsInner(xs, hits)
    IN  /\ stack' = SetTop([Top EXCEPT !.pc = "decide",
                                       !.isChange = r.isChange,
                                       !.s = r.maxStart,
                                       !.e = r.maxEnd])
        /\ rng' = [rng EXCEPT !.pos = rng.pos + r.draws]
        /\ x' \in InputAfter(Top.start, xs, hits, r.draws)
        /\ UNCHANGED <<shuffles, p, seed, clock, segments, pc, result, call,
                       prev, calls>>

AtDetect ==
    /\ pc = "running" /\ stack # <<>>
    /\ Top.pc = "enter"
    /\ Top.start < Top.end

rsegmentDetect ==
    /\ AtDetect
    /\ \E hits \in HitRuns(Slice(x, Top.start, Top.end)) : Detect(hits)
    /\ UNCHANGED stream

\* *l = append(*l, [2]int{start, end}); return nil
rsegmentLeaf ==
    /\ pc = "running" /\ stack # <<>>
    /\ Top.pc = "decide"
    /\ IsLeaf(Top)
    /\ segments' = Append(segments, <<Top.start, Top.end>>)
    /\ stack' = Pop
    /\ UNCHANGED <<x, shuffles, p, seed, clock, rng, pc, result, call, prev,
                   stream, calls>>

\* if s > 0 { rsegment(x, start, start+s, ...) }
rsegmentBefore ==
    /\ pc = "running" /\ stack # <<>>
    /\ Top.pc = "decide"
    /\ ~IsLeaf(Top)
    /\ IF Top.s > 0
       THEN /\ stack' = Append(SetTop([Top EXCEPT !.pc = "split"]),
                               Frame(BeforeRange(Top)[1], BeforeRange(Top)[2]))
            /\ calls' = Append(calls, BeforeRange(Top))
       ELSE /\ stack' = SetTop([Top EXCEPT !.pc = "split"])
            /\ UNCHANGED calls
    /\ UNCHANGED <<x, shuffles, p, seed, clock, rng, segments, pc, result,
                   call, prev, stream>>

\* if e-s > 0 { *l = append(*l, [2]int{start + s, start + e}) }
rsegmentSplit ==
    /\ pc = "running" /\ stack # <<>>
    /\ Top.pc = "split"
    /\ segments' = IF Top.e - Top.s > 0
                   THEN Append(segments, SplitSegment(Top))
                   ELSE segments
    /\ stack' = SetTop([Top EXCEPT !.pc = "after"])
    /\ UNCHANGED <<x, shuffles, p, seed, clock, rng, pc, result, call, prev,
                   stream, calls>>

\* if start+e < end { rsegment(x, start+e, end, ...) }; otherwise return nil
rsegmentAfter ==
    /\ pc = "running" /\ stack # <<>>
    /\ Top.pc = "after"
    /\ IF Top.start + Top.e < Top.end
       THEN /\ stack' = Append(SetTop([Top EXCEPT !.pc = "return"]),
                               Frame(AfterRange(Top)[1], AfterRange(Top)[2]))
            /\ calls' = Append(calls, AfterRange(Top))
       ELSE /\ stack' = Pop
            /\ UNCHANGED calls
    /\ UNCHANGED <<x, shuffles, p, seed, clock, rng, segments, pc, result,
                   call, prev, stream>>

\* return nil after the last recursive call
rsegmentReturn ==
    /\ pc = "running" /\ stack # <<>>
    /\ Top.pc = "return"
    /\ stack' = Pop
    /\ UNCHANGED <<x, shuffles, p, seed, clock, rng, segments, pc, result,
                   call, prev, stream, calls>>

\* return segments, nil
CBSReturn ==
    /\ pc = "running"
    /\ stack = <<>>
    /\ pc' = "done"
    /\ result' = [returned |-> TRUE, segments |-> segments, err |-> "nil"]
    /\ UNCHANGED <<x, shuffles, p, seed, clock, rng, segments, stack, call,
                   prev, stream, calls>>

Next ==
    \/ CBSEnter
    \/ rsegmentEmpty
    \/ rsegmentDetect
    \/ rsegmentLeaf
    \/ rsegmentBefore
    \/ rsegmentSplit
    \/ rsegmentAfter
    \/ rsegmentReturn
    \/ CBSReturn

Spec == Init /\ [][Next]_vars

----------------------------------------------------------------------------
(* Two calls of CBS with the same arguments *)

\* A random source yields one fixed stream: the k-th shuffle drawn from the
\* source of the first call came out as stream[k], and a second generator on
\* the same source draws the same again.
Replays(hits, draws) ==
    (call = 2 /\ rng.src = prev.src) =>
        \A k \in 1..draws :
            rng.pos + k <= Len(stream) => hits[k] = stream[rng.pos + k]

\* rsegmentDetect, the outcomes of the first call's shuffles being kept
rsegmentDetectRecorded ==
    /\ AtDetect
    /\ \E hits \in HitRuns(Slice(x, Top.start, Top.end)) :
          LET draws == cbsInner(Slice(x, Top.start, Top.end), hits).draws
          IN  /\ Replays(hits, draws)
              /\ Detect(hits)
              /\ stream' = IF call = 1
                           THEN stream \o SubSeq(hits, 1, draws)
                           ELSE stream

\* the caller calls CBS(x, shuffles, significanceLevel, seed) once more
CBSAgain ==
    /\ pc = "done"
    /\ call = 1
    /\ call' = 2
    /\ pc' = "start"
    /\ prev' = [returned |-> TRUE, segments |-> result.segments,
                err |-> result.err, src |-> rng.src]
    /\ clock' \in {clock, clock + 1}
    /\ result' = NoResult
    /\ rng' = NoRng
    /\ segments' = <<>>
    /\ calls' = <<>>
    /\ UNCHANGED <<x, shuffles, p, seed, stack, stream>>

NextTwice ==
    \/ CBSEnter
    \/ rsegmentEmpty
    \/ rsegmentDetectRecorded
    \/ rsegmentLeaf
    \/ rsegmentBefore
    \/ rsegmentSplit
    \/ rsegmentAfter
    \/ rsegmentReturn
    \/ CBSReturn
    \/ CBSAgain

InitTwice == Init /\ p = <<1, 2>>

SpecTwice == InitTwice /\ [][NextTwice]_vars

----------------------------------------------------------------------------
(* Helpers of the properties *)

\* sort.Slice(res, func(i, j int) bool { return res[i][0] < res[j][0] })
RECURSIVE InsertByStart(_, _)
InsertByStart(seg, sorted) ==
    IF sorted = <<>> THEN <<seg>>
    ELSE IF seg[1] < sorted[1][1] THEN <<seg>> \o sorted
    ELSE <<sorted[1]>> \o InsertByStart(seg, Tail(sorted))

RECURSIVE SortByStart(_)
SortByStart(segs) ==
    IF segs = <<>> THEN <<>>
    ELSE InsertByStart(segs[1], SortByStart(Tail(segs)))

\* segs, in the order given, tile [from, to) with non-empty intervals
Tiles(segs, from, to) ==
    /\ \A k \in 1..Len(segs) : segs[k][1] < segs[k][2]
    /\ \A k \in 1..(Len(segs) - 1) : segs[k][2] = segs[k + 1][1]
    /\ IF segs = <<>> THEN from = to
       ELSE segs[1][1] = from /\ segs[Len(segs)][2] = to

IsConstant(s) == \A i, j \in 1..Len(s) : s[i] = s[j]

Neg(s) == [k \in 1..Len(s) |-> 0 - s[k]]

\* a = b for fractions
StatEq(a, b) == a[1] * b[2] = b[1] * a[2]

\* cbsStat gives s and its negation the same split and the same statistic
SameUnderNegation(s) ==
    LET a == cbsStat(s)
        b == cbsStat(Neg(s))
    IN  /\ a.start = b.start
        /\ a.end = b.end
        /\ StatEq(a.stat, b.stat)

Done == pc = "done"

----------------------------------------------------------------------------
(* Properties *)

\* C1: for an input of length n >= 1 the segments CBS returns, sorted by
\* start, partition [0, n): the first starts at 0, each ends where the next
\* starts, the last ends at n, and each has start < end.
C1_Partition ==
    (Done /\ Len(x) >= 1) =>
        Tiles(SortByStart(result.segments), 0, Len(x))

\* a call that split its input three ways has returned
C1_Witness ==
    /\ Done
    /\ Len(result.segments) >= 3

\* C2: for an input of length n >= 5 every returned segment is at least 5
\* wide; a narrower segment is returned only for n < 5, and then it is the
\* single segment [0, n).
C2_MinLength ==
    Done =>
        \A k \in 1..Len(result.segments) :
            LET seg == result.segments[k]
            IN  \/ seg[2] - seg[1] >= MinSeg
                \/ /\ Len(x) < MinSeg
                   /\ result.segments = <<<<0, Len(x)>>>>

\* a split with a region before it and a region after it has returned
C2_Witness ==
    /\ Done
    /\ Len(calls) = 3
    /\ Len(result.segments) = 3

\* C5: for a constant input of length n >= 1 CBS returns exactly the one
\* segment [0, n), whatever shuffles and p are.
C5_ConstantOneSegment ==
    (Done /\ Len(x) >= 1 /\ IsConstant(x)) =>
        result.segments = <<<<0, Len(x)>>>>

\* a constant input long enough to split whose permutation loop ran to its
\* end, so that the detector reported a significant split
C5_Witness ==
    /\ Done
    /\ IsConstant(x)
    /\ Len(x) >= 2 * MinSeg
    /\ shuffles > 0
    /\ rng.pos = shuffles

\* C6: for an input of length n < 10 CBS returns no error, the empty list
\* when n = 0 and the one segment [0, n) otherwise; the detector gives a
\* split start that is 0 or >= 5 and leaves 0 or >= 5 elements after the
\* split end; and a range that is split is at least 10 long.
C6_ShortInputTrivial ==
    /\ (Done /\ Len(x) < 2 * MinSeg) =>
           /\ result.err = "nil"
           /\ result.segments = IF Len(x) = 0 THEN <<>> ELSE <<<<0, Len(x)>>>>
    /\ \A k \in 1..Len(stack) :
           LET f == stack[k]
           IN  /\ f.pc # "enter" =>
                      /\ f.s = 0 \/ f.s >= MinSeg
                      /\ f.end - f.start - f.e = 0
                            \/ f.end - f.start - f.e >= MinSeg
               /\ f.pc \in {"split", "after", "return"} =>
                      f.end - f.start >= 2 * MinSeg

\* an input of length 9 that is not constant, on which every shuffle of the
\* detector was made (so that it reported a significant split), has returned
C6_Witness ==
    /\ Done
    /\ Len(x) = 2 * MinSeg - 1
    /\ ~IsConstant(x)
    /\ shuffles > 0
    /\ rng.pos = shuffles

\* C7: cbsStat gives the same candidate split and the same statistic for a
\* non-empty slice and for the slice with every value negated; this holds of
\* the input and of every range rsegment passes to the detector.
C7_NegationSymmetry ==
    /\ Len(x) >= 1 => SameUnderNegation(x)
    /\ \A k \in 1..Len(stack) :
           stack[k].start < stack[k].end =>
               SameUnderNegation(Slice(x, stack[k].start, stack[k].end))

\* the detector has run on an input whose cumulative sum reaches its maximum
\* at several indices and its minimum at several indices
C7_Witness ==
    /\ Done
    /\ Len(x) >= 1
    /\ LET y == CumSum(x)
       IN  /\ \E i, j \in 1..Len(y) :
                 i < j /\ y[i] = y[j] /\ \A k \in 1..Len(y) : y[k] <= y[i]
           /\ \E i, j \in 1..Len(y) :
                 i < j /\ y[i] = y[j] /\ \A k \in 1..Len(y) : y[k] >= y[i]
           /\ \E i, j \in 1..Len(y) : y[i] # y[j]

\* C8: no step of CBS changes the caller's slice x.
C8_InputUnchanged == [][x' = x]_vars

\* shuffles have been made and the recursion is inside a child call
C8_Witness ==
    /\ pc = "running"
    /\ Len(stack) >= 2
    /\ rng.pos > 0

\* every frame above another is on a non-empty range inside its caller's
\* range and shorter than it
ChildrenShrink ==
    \A k \in 2..Len(stack) :
        /\ stack[k].start < stack[k].end
        /\ stack[k - 1].start <= stack[k].start
        /\ stack[k].end <= stack[k - 1].end
        /\ stack[k].end - stack[k].start < stack[k - 1].end - stack[k - 1].start

\* no range is passed to rsegment twice
NoRevisit == \A i, j \in 1..Len(calls) : i # j => calls[i] # calls[j]

\* a bound on the steps a call of rsegment on a range of length n can take
Budget(n) == 6 * n + 2

\* the steps the frame f can still take, its pending calls included
FrameSteps(f) ==
    LET pending == IF f.start + f.e < f.end
                   THEN Budget(AfterRange(f)[2] - AfterRange(f)[1])
                   ELSE 0
    IN  CASE f.pc = "enter"  -> Budget(f.end - f.start)
          [] f.pc = "decide" -> Budget(f.end - f.start) - 1
          [] f.pc = "split"  -> pending + 3
          [] f.pc = "after"  -> pending + 2
          [] f.pc = "return" -> 1

RECURSIVE StackSteps(_)
StackSteps(st) ==
    IF st = <<>> THEN 0 ELSE FrameSteps(st[1]) + StackSteps(Tail(st))

\* a bound on the steps CBS can still take
Variant ==
    CASE pc = "start"   -> Budget(Len(x)) + 2
      [] pc = "running" -> StackSteps(stack) + 1
      [] pc = "done"    -> 0

\* a frame that ends has emitted its range as a leaf, or has split and is
\* past its last recursive call, or is on an empty range
EndsAsLeafOrSplit ==
    (pc = "running" /\ Len(stack') < Len(stack)) =>
        \/ /\ Top.pc = "decide"
           /\ segments' = Append(segments, <<Top.start, Top.end>>)
        \/ /\ Top.pc \in {"after", "return"}
           /\ segments' = segments
        \/ /\ Top.pc = "enter"
           /\ Top.start >= Top.end

C10_EmittedInOrder ==
    /\ Tiles(segments, 0, IF segments = <<>> THEN 0
                          ELSE segments[Len(segments)][2])
    /\ Done => SortByStart(result.segments) = result.segments

\* segments have been appended from inside a child call on a range that
\* does not start at 0
C10_Witness ==
    /\ pc = "running"
    /\ Len(stack) >= 2
    /\ Top.start > 0
    /\ Len(segments) >= 2

\* C3: two calls of CBS with the same input, shuffles, p and seed return the
\* same segment list.
C3_Determinism ==
    (Done /\ call = 2) => result.segments = prev.segments

\* Two calls with seed 0 return the same segment list.
SeedZeroDeterminism ==
    (Done /\ call = 2 /\ seed = 0) => result.segments = prev.segments

====
